---- MODULE Spec2Model ----
(***************************************************************************)
(* The PPG signal-processing pipelines of vital-sense-monitor.             *)
(*                                                                         *)
(* Three processFrame implementations live in the sources:                 *)
(*   ppgSync  - class PPGProcessor of utils/ppgProcessor.ts (synchronous)  *)
(*   ppgAsync - class PPGProcessor of utils/signalExtraction.ts (async),   *)
(*              fed by class SignalExtractor of the same file              *)
(*   ultra    - class UltraAdvancedPPGProcessor of                         *)
(*              components/HeartRateMonitor.tsx                            *)
(*                                                                         *)
(* Number conventions (TLC has integers only):                             *)
(*   intensities (red, ir, buffers)   tenths of an intensity unit          *)
(*   qualities, ratios, factors       hundredths (0.2 is 20)               *)
(*   Kalman gain and covariance       thousandths                          *)
(*   time                             milliseconds                         *)
(*   NaN                              the value NaN below; every           *)
(*                                    comparison with it is false          *)
(***************************************************************************)
EXTENDS Integers, Sequences, FiniteSets, TLC

\* ------------------------------------------------------------------ numbers

\* IEEE NaN, kept apart from every number the model computes with.
NaN == 0 - 1000000

IsNaN(x) == x = NaN

\* IEEE +Infinity, above every number the model compares it with; -Infinity is
\* 0 - Infinity
Infinity == 2000000

\* a >= b, a <= b, a > b, a < b of JavaScript: false as soon as one side is NaN
Ge(a, b) == ~IsNaN(a) /\ ~IsNaN(b) /\ a >= b
Le(a, b) == ~IsNaN(a) /\ ~IsNaN(b) /\ a <= b
Gt(a, b) == ~IsNaN(a) /\ ~IsNaN(b) /\ a > b
Lt(a, b) == ~IsNaN(a) /\ ~IsNaN(b) /\ a < b

Min(a, b) == IF a <= b THEN a ELSE b
Max(a, b) == IF a >= b THEN a ELSE b

\* Math.min / Math.max of JavaScript: NaN as soon as one argument is NaN
MathMin(a, b) == IF IsNaN(a) \/ IsNaN(b) THEN NaN ELSE Min(a, b)
MathMax(a, b) == IF IsNaN(a) \/ IsNaN(b) THEN NaN ELSE Max(a, b)

RECURSIVE SumSeq(_)
SumSeq(s) == IF s = <<>> THEN 0 ELSE Head(s) + SumSeq(Tail(s))

RECURSIVE SumSquares(_)
SumSquares(s) == IF s = <<>> THEN 0 ELSE Head(s) * Head(s) + SumSquares(Tail(s))

RECURSIVE MaxSeq(_)
MaxSeq(s) == IF Len(s) = 1 THEN Head(s) ELSE Max(Head(s), MaxSeq(Tail(s)))

RECURSIVE MinSeq(_)
MinSeq(s) == IF Len(s) = 1 THEN Head(s) ELSE Min(Head(s), MinSeq(Tail(s)))

\* floor of the square root, saturating at 100 (callers take min(1, .) in hundredths)
Isqrt100(n) == CHOOSE r \in 0..100 : r * r <= n /\ (r = 100 \/ n < (r + 1) * (r + 1))

\* push without the eviction
PushUncapped(buf, v, cap) == Append(buf, v)

\* Array.push followed by one shift() when the array outgrew `cap`
PushCapped(buf, v, cap) ==
  LET b == Append(buf, v) IN IF Len(b) > cap THEN Tail(b) ELSE b

\* --------------------------------------------------------------- the frames

\* One frame is the content of its region of interest, as groups of equal
\* pixels: n pixels of colour (r, g, b).  The region is 2*regionSize pixels
\* wide and high.
regionSize == 50

RoiPixels == (2 * regionSize) * (2 * regionSize)

Group(n, r, g, b) == [n |-> n, r |-> r, g |-> g, b |-> b]

\* finger on the lens, torch on: red dominant (130 against 90)
FingerFrame == << Group(RoiPixels, 130, 90, 90) >>
\* nothing on the lens in the dark: every pixel below minIntensity
DarkFrame == << Group(RoiPixels, 0, 0, 0) >>
\* a lit scene without finger: red not dominant
SceneFrame == << Group(RoiPixels, 100, 120, 120) >>
\* a finger covering a corner only: 60 usable pixels
CornerFrame == << Group(60, 130, 90, 90), Group(RoiPixels - 60, 10, 10, 10) >>

\* a finger on a spot the torch overexposes: nine pixels in ten at red 255
SaturatedFrame ==
  << Group((RoiPixels * 9) \div 10, 255, 255, 255),
     Group(RoiPixels \div 10, 130, 90, 90) >>

Frames == { FingerFrame, DarkFrame, SceneFrame, CornerFrame }

\* ppgProcessor.ts looks at saturation only: a usable frame and an unusable one
SyncFrames == { FingerFrame, DarkFrame }

\* ------------------------------------------- SignalExtractor (signalExtraction.ts)

minIntensity == 45
maxIntensity == 250
smoothingWindow == 5
minValidPixels == 100
\* 1.2, in hundredths
redDominanceThreshold == 120
\* 0.15, in hundredths
stabilityThreshold == 15
stabilityWindow == 10
minStabilityValues == 5

\* q = 0.1, r = 0.8, p = 1 in thousandths; x in tenths of an intensity unit
kalmanQ == 100
kalmanR == 800
kalmanP0 == 1000

NewExtractor ==
  [ lastRedValues |-> <<>>, lastIrValues |-> <<>>, lastStabilityValues |-> <<>>,
    kalman |-> [p |-> kalmanP0, x |-> 0, k |-> 0] ]

\* applyKalmanFilter: the filter state after one measurement (its x is returned)
applyKalmanFilter(kal, measurement) ==
  LET p1 == kal.p + kalmanQ
      k  == (p1 * 1000) \div (p1 + kalmanR)
      x  == kal.x + (k * (measurement - kal.x)) \div 1000
  IN  [p |-> ((1000 - k) * p1) \div 1000, x |-> x, k |-> k]

\* calculateStability on the history that already holds the new value:
\* 1 - min(1, sqrt(variance) / mean), in hundredths; 0 below five values
calculateStability(values) ==
  LET n  == Len(values)
      s  == SumSeq(values)
      q  == SumSquares(values)
      \* (sqrt(variance) / mean)^2 = (n*q - s*s) / (s*s), here in 1/10000
      cv2 == (n * q - s * s) \div Max(1, (s * s) \div 10000)
  IN  IF n < minStabilityValues THEN 0 ELSE 100 - Min(100, Isqrt100(cv2))

RECURSIVE ValidGroups(_)
ValidGroups(frame) ==
  IF frame = <<>> THEN <<>>
  ELSE LET g == Head(frame) IN
       IF g.r > minIntensity /\ g.r < maxIntensity
       THEN <<g>> \o ValidGroups(Tail(frame))
       ELSE ValidGroups(Tail(frame))

RECURSIVE PixelCount(_)
PixelCount(groups) == IF groups = <<>> THEN 0 ELSE Head(groups).n + PixelCount(Tail(groups))

RECURSIVE RedSum(_)
RedSum(groups) ==
  IF groups = <<>> THEN 0 ELSE Head(groups).n * Head(groups).r + RedSum(Tail(groups))

\* twice the sum of ir = (green + blue) / 2 over the groups
RECURSIVE Ir2Sum(_)
Ir2Sum(groups) ==
  IF groups = <<>> THEN 0
  ELSE Head(groups).n * (Head(groups).g + Head(groups).b) + Ir2Sum(Tail(groups))

ExtractorRejected == [red |-> 0, ir |-> 0, quality |-> 0]

\* lines 81-93: too few accepted pixels, or avgRed / avgIr < redDominanceThreshold
\* (avgIr = ir2Sum / (2 * pixelCount); x / 0 is +Infinity, which is not below it)
extractorRejects(frame) ==
  LET valid == ValidGroups(frame) IN
  \/ PixelCount(valid) < minValidPixels
  \/ 200 * RedSum(valid) < redDominanceThreshold * Ir2Sum(valid)

\* SignalExtractor.extractChannels: [out |-> {red, ir, quality}, ext |-> extractor after]
\* (perfusionIndex and the logging counter frameCount reach no caller in src)
extractChannels(ext, frame) ==
  LET valid      == ValidGroups(frame)
      pixelCount == PixelCount(valid)
      redSum     == RedSum(valid)
      ir2Sum     == Ir2Sum(valid)
  IN
  IF extractorRejects(frame)
  THEN [out |-> ExtractorRejected, ext |-> ext]
  ELSE
    LET avgRed  == (redSum * 10) \div pixelCount
        avgIr   == (ir2Sum * 5) \div pixelCount
        reds    == PushCapped(ext.lastRedValues, avgRed, smoothingWindow)
        irs     == PushCapped(ext.lastIrValues, avgIr, smoothingWindow)
        kalRed  == applyKalmanFilter(ext.kalman, SumSeq(reds) \div Len(reds))
        kalIr   == applyKalmanFilter(kalRed, SumSeq(irs) \div Len(irs))
        stabs   == PushCapped(ext.lastStabilityValues, kalRed.x, stabilityWindow)
        stability        == calculateStability(stabs)
        pixelQuality     == Min(100, (pixelCount * 100) \div (minValidPixels * 2))
        stabilityQuality == IF stability > stabilityThreshold THEN 100
                            ELSE (stability * 100) \div stabilityThreshold
    IN [ out |-> [red |-> kalRed.x, ir |-> kalIr.x,
                  quality |-> Min(pixelQuality, stabilityQuality)],
         ext |-> [ lastRedValues |-> reds, lastIrValues |-> irs,
                   lastStabilityValues |-> stabs, kalman |-> kalIr ] ]


\* --------------------------------- collaborators that are not part of the sources
\* SignalFilter, SignalNormalizer, SignalFrequencyAnalyzer, SignalProcessor,
\* PeakDetector, MLModel and BeepPlayer are imported by the pipelines; what they
\* return is an input of every frame, drawn from the sets below.

\* dominant frequency of performFFT in hundredths of a hertz (0.5, 1.2 and 4 Hz),
\* or NaN (frequencies[-1] * 60 when the spectrum is empty)
DominantFreqs == { NaN, 50, 120, 400 }

\* estimateBloodPressure in ppgAsync: any pair, so that validateVitalSigns sees
\* in-range, out-of-range, inverted and non-finite estimates
AnyPressures ==
  { <<130, 85>>, <<100, 110>>, <<200, 110>>, <<100, 40>>, <<NaN, NaN>> }

\* calculateSpO2 in ppgAsync: any finite percentage, inside and outside the band
AnySpo2Results ==
  { [spo2 |-> 0, confidence |-> 0], [spo2 |-> 50, confidence |-> 30],
    [spo2 |-> 98, confidence |-> 90], [spo2 |-> 130, confidence |-> 90] }

\* MLModel.predictOptimizedSettings: MIN_RED_VALUE, PEAK_THRESHOLD_FACTOR and
\* MIN_VALID_PIXELS_RATIO (the last two in hundredths)
Predictions == { <<20, 50, 30>>, <<NaN, 50, 30>> }

\* any three numbers: on and just outside each bound, far outside, and non-finite
\* components one at a time
AnyPredictions ==
  Predictions \cup
  { <<10, 30, 10>>, <<30, 70, 50>>, <<9, 29, 9>>, <<31, 71, 51>>, <<30, 80, 9>>,
    <<500, 0 - 5, 45>>, <<Infinity, 50, 30>>, <<25, 0 - Infinity, 30>>,
    <<25, 50, NaN>> }

PredictOutcomes ==
  { [ok |-> FALSE, values |-> <<0, 0, 0>>] } \cup { [ok |-> TRUE, values |-> p] : p \in Predictions }

AnyPredictOutcomes ==
  { [ok |-> FALSE, values |-> <<0, 0, 0>>] }
  \cup { [ok |-> TRUE, values |-> p] : p \in AnyPredictions }

\* analyzeSignalQuality, in hundredths
SignalQualities == { 0, 60 }

\* analyzeHRV
HrvResults ==
  { [hasArrhythmia |-> FALSE, type |-> "Normal",
     sdnn |-> 0, rmssd |-> 0, pnn50 |-> 0, lfhf |-> 0],
    [hasArrhythmia |-> TRUE, type |-> "Irregular",
     sdnn |-> 250, rmssd |-> 300, pnn50 |-> 50, lfhf |-> 2] }

\* normalizeSignal(lowPassFilter(redBuffer))
NormalizedValues == { 0, 10 }

\* --------------------------------------- PPGProcessor (signalExtraction.ts), ppgAsync

windowSize == 300
bufferSize == 30
maxPeakTimes == 10
\* 0.2, in hundredths
asyncQualityThreshold == 20
trainingPeriod == 30
maxTrainingData == 100
minTrainingData == 10

minBpm == 40
maxBpm == 200
minSystolic == 90
maxSystolic == 180
minDiastolic == 60
maxDiastolic == 120
minSpo2 == 75
maxSpo2 == 100

\* PeakDetector.isRealPeak, refractory gate of spec 4.3 (a): the detector keeps
\* the time of the peak it accepted last
minPeakDistance == 500

NewPeakDetector == [lastPeakTime |-> 0]

\* `shape` stands for conditions (b)-(d) of spec 4.3, which are about the signal
peakDetectorIsRealPeak(det, now, shape) ==
  IF now - det.lastPeakTime < minPeakDistance THEN FALSE ELSE shape

InitialSensitivity ==
  [signalAmplification |-> 150, noiseReduction |-> 120, peakDetection |-> 130]

\* lines 180-194 (PEAK_THRESHOLD_FACTOR, MIN_RED_DOMINANCE and
\* MIN_VALID_PIXELS_RATIO in hundredths)
InitialProcessing ==
  [ MEASUREMENT_DURATION |-> 30, MIN_FRAMES_FOR_CALCULATION |-> 15,
    MIN_PEAKS_FOR_VALID_HR |-> 2, MIN_PEAK_DISTANCE |-> 400,
    MAX_PEAK_DISTANCE |-> 1200, PEAK_THRESHOLD_FACTOR |-> 40,
    MIN_RED_VALUE |-> 15, MIN_RED_DOMINANCE |-> 120,
    MIN_VALID_PIXELS_RATIO |-> 20, MIN_BRIGHTNESS |-> 80,
    MIN_VALID_READINGS |-> 30, FINGER_DETECTION_DELAY |-> 500, MIN_SPO2 |-> 75 ]

\* The local variables of the processFrame call: `live` while the call is pending;
\* those of a call that got past the finger gate stay readable (`known`) until the
\* next call, for the properties that relate a snapshot to its estimates.
NoLocals == [live |-> FALSE, known |-> FALSE]

\* optimizedSettings before predictOptimizedSettings has settled
NoPrediction == [ok |-> FALSE, values |-> << >>]

NewAsync ==
  [ readings |-> <<>>, redBuffer |-> <<>>, irBuffer |-> <<>>, peakTimes |-> <<>>,
    signalBuffer |-> <<>>, trainingData |-> <<>>, targetData |-> <<>>,
    frameCount |-> 0,
    lastValidBpm |-> 0, lastValidSystolic |-> 120, lastValidDiastolic |-> 80,
    sensitivitySettings |-> InitialSensitivity,
    processingSettings |-> InitialProcessing,
    signalExtractor |-> NewExtractor,
    peakDetector |-> NewPeakDetector,
    \* where the pending processFrame call is suspended, and its local variables
    pc |-> "idle", locals |-> NoLocals,
    \* history, not a field of the class: calculatedBpm of the most recent frame
    \* on which it was within [minBpm, maxBpm], 0 before the first
    lastBpmInRange |-> 0 ]

\* what a processFrame call settled with
NoResult == [kind |-> "none"]
Rejected == [kind |-> "rejected"]
NullResult == [kind |-> "null"]
Emitted(snapshot) == [kind |-> "snapshot", snap |-> snapshot]

NoFingerSnapshot ==
  [ bpm |-> 0, spo2 |-> 0, systolic |-> 0, diastolic |-> 0,
    hasArrhythmia |-> FALSE, arrhythmiaType |-> "Normal",
    signalQuality |-> 0, confidence |-> 0, readings |-> <<>>, isPeak |-> FALSE,
    hrvMetrics |-> [sdnn |-> 0, rmssd |-> 0, pnn50 |-> 0, lfhf |-> 0] ]

\* validateVitalSigns without the roll-back of lines 226-232
validateVitalSignsUnordered(s, bpm, systolic, diastolic) ==
  LET validBpm == IF Ge(bpm, minBpm * 100) /\ Le(bpm, maxBpm * 100)
                  THEN bpm ELSE s.lastValidBpm
      validSystolic == IF Ge(systolic, minSystolic) /\ Le(systolic, maxSystolic)
                       THEN systolic ELSE s.lastValidSystolic
      validDiastolic == IF Ge(diastolic, minDiastolic) /\ Le(diastolic, maxDiastolic)
                        THEN diastolic ELSE s.lastValidDiastolic
  IN
  [ vitals |-> [bpm |-> validBpm, systolic |-> validSystolic,
                diastolic |-> validDiastolic],
    s |-> [s EXCEPT !.lastValidBpm = validBpm,
                    !.lastValidSystolic = validSystolic,
                    !.lastValidDiastolic = validDiastolic] ]

\* validateVitalSigns: [vitals |-> the validated triple, s |-> the instance after]
\* (bpm in hundredths of a beat per minute)
validateVitalSigns(s, bpm, systolic, diastolic) ==
  LET validBpm == IF Ge(bpm, minBpm * 100) /\ Le(bpm, maxBpm * 100)
                  THEN bpm ELSE s.lastValidBpm
      validSystolic == IF Ge(systolic, minSystolic) /\ Le(systolic, maxSystolic)
                       THEN systolic ELSE s.lastValidSystolic
      validDiastolic == IF Ge(diastolic, minDiastolic) /\ Le(diastolic, maxDiastolic)
                        THEN diastolic ELSE s.lastValidDiastolic
  IN
  IF validSystolic <= validDiastolic
  THEN [ vitals |-> [bpm |-> validBpm, systolic |-> s.lastValidSystolic,
                     diastolic |-> s.lastValidDiastolic],
         s |-> s ]
  ELSE [ vitals |-> [bpm |-> validBpm, systolic |-> validSystolic,
                     diastolic |-> validDiastolic],
         s |-> [s EXCEPT !.lastValidBpm = validBpm,
                         !.lastValidSystolic = validSystolic,
                         !.lastValidDiastolic = validDiastolic] ]

\* lines 285-317 with line 308 (this.targetData.shift()) left out
saveTrainingDataOneShift(s, bpm, spo2, signalQuality) ==
  IF Gt(bpm, minBpm * 100) /\ Lt(bpm, maxBpm * 100) /\ Ge(spo2, 75) /\ Le(spo2, 100)
     /\ Gt(signalQuality, 20)
  THEN LET td == Append(s.trainingData, <<bpm, spo2, signalQuality>>)
           tg == Append(s.targetData,
                        << s.processingSettings.MIN_RED_VALUE,
                           s.processingSettings.PEAK_THRESHOLD_FACTOR,
                           s.processingSettings.MIN_VALID_PIXELS_RATIO >>)
       IN IF Len(td) > maxTrainingData
          THEN [s EXCEPT !.trainingData = Tail(td), !.targetData = tg]
          ELSE [s EXCEPT !.trainingData = td, !.targetData = tg]
  ELSE s

\* saveTrainingData (signalQuality in hundredths)
saveTrainingData(s, bpm, spo2, signalQuality) ==
  IF Gt(bpm, minBpm * 100) /\ Lt(bpm, maxBpm * 100) /\ Ge(spo2, 75) /\ Le(spo2, 100)
     /\ Gt(signalQuality, 20)
  THEN LET td == Append(s.trainingData, <<bpm, spo2, signalQuality>>)
           tg == Append(s.targetData,
                        << s.processingSettings.MIN_RED_VALUE,
                           s.processingSettings.PEAK_THRESHOLD_FACTOR,
                           s.processingSettings.MIN_VALID_PIXELS_RATIO >>)
       IN IF Len(td) > maxTrainingData
          THEN [s EXCEPT !.trainingData = Tail(td), !.targetData = Tail(tg)]
          ELSE [s EXCEPT !.trainingData = td, !.targetData = tg]
  ELSE s

\* a * b of JavaScript
Times(a, b) == IF IsNaN(a) \/ IsNaN(b) THEN NaN ELSE a * b

Pending == [kind |-> "pending"]

\* line 423 without its clamp
unclampedSpo2(spo2) == spo2

\* line 423: Math.min(100, Math.max(75, spo2))
clampSpo2(spo2) == MathMin(maxSpo2, MathMax(minSpo2, spo2))

\* lines 421-438: the snapshot processFrame returns, the call being over
asyncReturn(s) ==
  LET l == s.locals IN
  [ s   |-> [s EXCEPT !.pc = "idle", !.locals.live = FALSE],
    out |-> Emitted(
      [ bpm |-> l.vitals.bpm,
        spo2 |-> clampSpo2(l.in.spo2Result.spo2),
        systolic |-> l.vitals.systolic, diastolic |-> l.vitals.diastolic,
        hasArrhythmia |-> l.in.hrv.hasArrhythmia, arrhythmiaType |-> l.in.hrv.type,
        signalQuality |-> l.in.signalQuality,
        confidence |-> l.in.spo2Result.confidence,
        readings |-> s.readings, isPeak |-> l.isPeak,
        hrvMetrics |-> [sdnn |-> l.in.hrv.sdnn, rmssd |-> l.in.hrv.rmssd,
                        pnn50 |-> l.in.hrv.pnn50, lfhf |-> l.in.hrv.lfhf] ]) ]

\* lines 403-419: the estimators, validateVitalSigns, and every thirtieth frame
\* saveTrainingData and the call of trainMLModel, which processFrame awaits
asyncEstimate(s) ==
  LET in == s.locals.in
      v  == validateVitalSigns(s, Times(in.dominantFreq, 60), in.bp[1], in.bp[2])
      bpm == Times(in.dominantFreq, 60)
      s1 == [v.s EXCEPT !.locals.vitals = v.vitals,
                        !.lastBpmInRange =
                          IF Ge(bpm, minBpm * 100) /\ Le(bpm, maxBpm * 100)
                          THEN bpm ELSE @]
  IN
  IF s1.frameCount % trainingPeriod = 0 /\ Gt(v.vitals.bpm, 0)
  THEN [ s   |-> [ saveTrainingData(s1, v.vitals.bpm, in.spo2Result.spo2,
                                    in.signalQuality)
                   EXCEPT !.pc = "train" ],
         out |-> Pending ]
  ELSE asyncReturn(s1)

\* lines 374-401 with every frame taken for a peak
recordReadingAsPeak(s, isPeak, now, value) ==
  LET reading == [timestamp |-> now, value |-> value]
      rs == <<reading>> \o s.readings
  IN [s EXCEPT !.readings = IF Len(rs) > windowSize
                            THEN SubSeq(rs, 1, Len(rs) - 1) ELSE rs,
               !.peakTimes = PushCapped(s.peakTimes, now, maxPeakTimes)]

\* lines 374-401: the reading and the peak history of this frame
recordReading(s, isPeak, now, value) ==
  LET reading == [timestamp |-> now, value |-> value] IN
  IF isPeak
  THEN LET rs == <<reading>> \o s.readings IN
       [s EXCEPT !.readings = IF Len(rs) > windowSize
                              THEN SubSeq(rs, 1, Len(rs) - 1) ELSE rs,
                 !.peakTimes = PushCapped(s.peakTimes, now, maxPeakTimes)]
  ELSE [s EXCEPT !.readings = PushCapped(s.readings, reading, windowSize)]

\* lines 320-401: from the call to the first await, or to the return
asyncBegin(s, in) ==
  LET ex == extractChannels(s.signalExtractor, in.frame)
      s0 == [s EXCEPT !.frameCount = s.frameCount + 1, !.signalExtractor = ex.ext]
      red == ex.out.red
      ir  == ex.out.ir
      quality == ex.out.quality
  IN
  IF quality < asyncQualityThreshold \/ red < s0.processingSettings.MIN_RED_VALUE * 10
  THEN [ s   |-> [s0 EXCEPT !.redBuffer = <<>>, !.irBuffer = <<>>,
                            !.readings = <<>>, !.peakTimes = <<>>,
                            !.locals = NoLocals],
         out |-> Emitted(NoFingerSnapshot) ]
  ELSE
    LET amplifiedRed == (red * s0.sensitivitySettings.signalAmplification) \div 100
        amplifiedIr  == (ir * s0.sensitivitySettings.signalAmplification) \div 100
        reds == Append(s0.redBuffer, amplifiedRed)
        irs  == Append(s0.irBuffer, amplifiedIr)
        over == Len(reds) > windowSize
        isPeak == peakDetectorIsRealPeak(s0.peakDetector, in.now, in.shape)
        s1 == [s0 EXCEPT
                 !.redBuffer = IF over THEN Tail(reds) ELSE reds,
                 !.irBuffer  = IF over THEN Tail(irs) ELSE irs,
                 !.signalBuffer = PushCapped(s0.signalBuffer, in.normalizedValue,
                                             bufferSize),
                 !.peakDetector = IF isPeak THEN [lastPeakTime |-> in.now]
                                  ELSE s0.peakDetector,
                 !.locals = [live |-> TRUE, known |-> TRUE, in |-> in,
                             quality |-> quality,
                             isPeak |-> isPeak,
                             vitals |-> [bpm |-> 0, systolic |-> 0, diastolic |-> 0],
                             optimizedSettings |-> NoPrediction,
                             \* the configuration lines 325-362 read
                             config |-> [sensitivity |-> s0.sensitivitySettings,
                                         processing |-> s0.processingSettings]]]
        s2 == recordReading(s1, isPeak, in.now, in.normalizedValue)
    IN IF isPeak
       THEN [s |-> [s2 EXCEPT !.pc = "beep"], out |-> Pending]
       ELSE asyncEstimate(s2)

\* lines 385-395: playBeep settled; a rejection is caught and logged
asyncAfterBeep(s, beepOk) == asyncEstimate(s)

\* line 417: trainMLModel settled; its rejection is the rejection of processFrame,
\* otherwise updateSettingsWithML is called and awaits the prediction
asyncAfterTrain(s, trainOk) ==
  IF trainOk
  THEN [s |-> [s EXCEPT !.pc = "predict"], out |-> Pending]
  ELSE [s |-> [s EXCEPT !.pc = "idle", !.locals.live = FALSE], out |-> Rejected]

\* lines 244-274 with the three range tests left out
updateSettingsUnchecked(settings, outcome) ==
  IF ~outcome.ok THEN settings
  ELSE LET o == outcome.values IN
  IF IsNaN(o[1]) \/ IsNaN(o[2]) \/ IsNaN(o[3]) THEN settings
  ELSE [settings EXCEPT !.MIN_RED_VALUE = o[1], !.PEAK_THRESHOLD_FACTOR = o[2],
                        !.MIN_VALID_PIXELS_RATIO = o[3]]

\* lines 244-274: the prediction settled with `outcome`: it threw, or it is three
\* numbers
updateSettingsWithML(settings, outcome) ==
  IF ~outcome.ok THEN settings
  ELSE LET o == outcome.values IN
  IF IsNaN(o[1]) \/ IsNaN(o[2]) \/ IsNaN(o[3]) THEN settings
  ELSE [settings EXCEPT
          !.MIN_RED_VALUE = IF o[1] >= 10 /\ o[1] <= 30 THEN o[1] ELSE @,
          !.PEAK_THRESHOLD_FACTOR = IF o[2] >= 30 /\ o[2] <= 70 THEN o[2] ELSE @,
          !.MIN_VALID_PIXELS_RATIO = IF o[3] >= 10 /\ o[3] <= 50 THEN o[3] ELSE @]

\* line 418 and the return
asyncAfterPredict(s, outcome) ==
  asyncReturn([s EXCEPT !.processingSettings = updateSettingsWithML(@, outcome),
                        !.locals.optimizedSettings = outcome])

\* updateSensitivitySettings
updateSensitivitySettings(s, settings) == [s EXCEPT !.sensitivitySettings = settings]

\* lines 319-413: processFrame from its call until it returns or reaches the
\* training of every thirtieth frame, the beep settling at once
asyncRun(s, in) ==
  CHOOSE done \in { IF r.s.pc = "beep" THEN asyncAfterBeep(r.s, TRUE) ELSE r :
                    r \in { asyncBegin(s, in) } } : TRUE

\* ------------------------------------------- PPGProcessor (ppgProcessor.ts), ppgSync

\* 0.6, in hundredths
syncQualityThreshold == 60

\* SignalProcessor.estimateBloodPressure and estimateBloodPressureWithCalibration
\* as ppgSync emits them, after spec 4.7: clamped to 90-180 and 60-120, systolic
\* above diastolic
PressureEstimates == { <<120, 80>>, <<135, 88>> }
CalibratedPressureEstimates == { <<118, 76>> }

\* SignalProcessor.calculateSpO2 as ppgSync emits it, after spec 4.6: 0 (no
\* reading) or a percentage clamped to 75-100
Spo2Estimates == { 0, 96 }

\* last value of lowPassFilter(redBuffer, 5), in tenths
FilteredValues == { 1250, 1350 }

NewSync ==
  [ readings |-> <<>>, redBuffer |-> <<>>, irBuffer |-> <<>>, peakTimes |-> <<>>,
    lastPeakTime |-> 0, signalBuffer |-> <<>>, baseline |-> 0,
    adaptiveThreshold |-> 0, calibrationData |-> "null" ]

RECURSIVE SaturatedCount(_)
SaturatedCount(frame) ==
  IF frame = <<>> THEN 0
  ELSE (IF Head(frame).r > 250 \/ Head(frame).r < 5 THEN Head(frame).n ELSE 0)
       + SaturatedCount(Tail(frame))

\* ten times the sum of green * 0.7 + blue * 0.3 over the frame
RECURSIVE WeightedIrSum(_)
WeightedIrSum(frame) ==
  IF frame = <<>> THEN 0
  ELSE Head(frame).n * (7 * Head(frame).g + 3 * Head(frame).b)
       + WeightedIrSum(Tail(frame))

\* PPGProcessor.extractChannels of ppgProcessor.ts (the region lies inside the frame)
syncExtractChannels(frame) ==
  LET pixelCount == PixelCount(frame) IN
  [ red |-> (RedSum(frame) * 10) \div pixelCount,
    ir  |-> WeightedIrSum(frame) \div pixelCount,
    quality |-> ((pixelCount - SaturatedCount(frame)) * 100) \div pixelCount ]

Abs(x) == IF x < 0 THEN 0 - x ELSE x

\* normalizeSignal: [baseline |-> the new baseline, value |-> the normalized value],
\* both in tenths
normalizeSignal(baseline, value) ==
  LET b == (baseline * 95 + value * 5) \div 100 IN
  [ baseline |-> b, value |-> ((value - b) * 1000) \div Max(Abs(b), 10) ]

LastN(s, n) == IF Len(s) <= n THEN s ELSE SubSeq(s, Len(s) - n + 1, Len(s))

\* validatePeakShape; samples[3] of a window of fewer than four is undefined, and
\* undefined - x is NaN
validatePeakShape(s, currentValue) ==
  LET samples == LastN(s.signalBuffer, 4)
      derivative1 == IF Len(samples) >= 3 THEN samples[3] - samples[2] ELSE NaN
      derivative2 == IF Len(samples) >= 4 THEN samples[4] - samples[3] ELSE NaN
      hasCorrectShape == Gt(derivative1, 0) /\ Lt(derivative2, 0)
      peakAmplitude == Abs(currentValue - MinSeq(samples))
      hasSignificantAmplitude == 10 * peakAmplitude > 3 * s.adaptiveThreshold
  IN hasCorrectShape /\ hasSignificantAmplitude

\* isRealPeak without the call of validatePeakShape at line 210
syncIsRealPeakAnyShape(s, currentValue, now) ==
  IF now - s.lastPeakTime < minPeakDistance THEN FALSE
  ELSE IF Len(s.signalBuffer) < 3 THEN FALSE
  ELSE LET recentValues == LastN(s.signalBuffer, 5)
           n == Len(s.signalBuffer)
       IN /\ 10 * Len(recentValues) * currentValue > 6 * SumSeq(recentValues)
          /\ 10 * currentValue > 7 * s.adaptiveThreshold
          /\ currentValue > s.signalBuffer[n - 1]
          /\ currentValue > s.signalBuffer[n - 2]

\* isRealPeak, on the signalBuffer that already holds currentValue
syncIsRealPeak(s, currentValue, now) ==
  IF now - s.lastPeakTime < minPeakDistance THEN FALSE
  ELSE IF Len(s.signalBuffer) < 3 THEN FALSE
  ELSE LET recentValues == LastN(s.signalBuffer, 5)
           n == Len(s.signalBuffer)
       IN \* currentValue > max(avgValue * 0.6, adaptiveThreshold * 0.7)
          /\ 10 * Len(recentValues) * currentValue > 6 * SumSeq(recentValues)
          /\ 10 * currentValue > 7 * s.adaptiveThreshold
          /\ currentValue > s.signalBuffer[n - 1]
          /\ currentValue > s.signalBuffer[n - 2]
          /\ validatePeakShape(s, currentValue)

\* Math.round of a value in hundredths: floor(x + 0.5), NaN for NaN
MathRound(x) == IF IsNaN(x) THEN NaN ELSE ((x + 50) \div 100) * 100

\* lines 110-116 with the default estimator on both sides
syncPressureUncalibrated(s, in) == in.bp

\* lines 110-116: the estimator with calibration when calibrationData is set
syncPressure(s, in) ==
  IF s.calibrationData # "null" THEN in.bpCalibrated ELSE in.bp

\* setCalibrationData (updateCalibrationConstants is inside SignalProcessor)
setCalibrationData(s, data) == [s EXCEPT !.calibrationData = data]

\* processFrame of ppgProcessor.ts
syncProcessFrame(s, in) ==
  LET ch == syncExtractChannels(in.frame) IN
  IF ch.quality < syncQualityThreshold THEN [s |-> s, out |-> NullResult]
  ELSE
    LET reds == Append(s.redBuffer, ch.red)
        irs  == Append(s.irBuffer, ch.ir)
        over == Len(reds) > windowSize
        norm == normalizeSignal(s.baseline, in.filtered)
        s1 == [s EXCEPT
                 !.redBuffer = IF over THEN Tail(reds) ELSE reds,
                 !.irBuffer  = IF over THEN Tail(irs) ELSE irs,
                 !.baseline = norm.baseline,
                 !.readings = LastN(Append(s.readings,
                                [timestamp |-> in.now, value |-> norm.value]),
                                windowSize),
                 !.signalBuffer = PushCapped(s.signalBuffer, norm.value, bufferSize)]
        isPeak == syncIsRealPeak(s1, norm.value, in.now)
        s2 == IF isPeak
              THEN [s1 EXCEPT
                      !.adaptiveThreshold = (@ * 95 + norm.value * 5) \div 100,
                      !.lastPeakTime = in.now,
                      !.peakTimes = PushCapped(s1.peakTimes, in.now, maxPeakTimes)]
              ELSE s1
        bp == syncPressure(s2, in)
    IN [ s   |-> s2,
         out |-> Emitted(
           [ bpm |-> MathRound(Times(in.dominantFreq, 60)),
             spo2 |-> in.spo2,
             systolic |-> bp[1], diastolic |-> bp[2],
             hasArrhythmia |-> in.hrv.hasArrhythmia,
             arrhythmiaType |-> in.hrv.type,
             signalQuality |-> in.signalQuality ]) ]

\* ------------------------- UltraAdvancedPPGProcessor (HeartRateMonitor.tsx), ultra

\* The last samples of the processed buffer (CircularBuffer is not part of the
\* sources): signalForAnalysis of one frame.
AnalysisWindows ==
  { <<100>>, <<100, 100, 100>>, <<100, 102, 100>>, <<85, 115>>, <<90, 110, 95>>,
    <<80, 120>>, <<100, 104, 100, 101, 100, 104, 100>>,
    \* peaks 2 and 5 samples apart
    <<100, 104, 100, 104, 100, 100, 100, 100, 104, 100>> }

\* QuantumHeartbeatDetector.getCurrentBPM, in hundredths: no beat yet, 72.4
DetectorBpms == { 0, 7240 }

\* n * n * variance of the samples
Spread(w) == Len(w) * SumSquares(w) - SumSeq(w) * SumSeq(w)

\* calculateSignalQuality is min(max(snr / 10, 0), 1) with
\* snr = |mean| / sqrt(variance), and 0 without variance.  With S the sum of the
\* samples, snr = |S| / sqrt(Spread), so for 0 <= num < den
\*   quality > num / den   iff   (den * S)^2 > (10 * num)^2 * Spread
qualityAbove(w, num, den) ==
  /\ Spread(w) > 0
  /\ den * den * SumSeq(w) * SumSeq(w) > 100 * num * num * Spread(w)

\* quality >= num / den, for 0 < num <= den
qualityAtLeast(w, num, den) ==
  /\ Spread(w) > 0
  /\ den * den * SumSeq(w) * SumSeq(w) >= 100 * num * num * Spread(w)

\* calculateSignalQuality in hundredths, rounded down: the largest q with
\* quality >= q / 100, that is (10 * S)^2 >= q^2 * Spread
calculateSignalQuality(w) ==
  IF w = <<>> \/ Spread(w) = 0 THEN 0
  ELSE CHOOSE q \in 0..100 :
         /\ 100 * SumSeq(w) * SumSeq(w) >= q * q * Spread(w)
         /\ q = 100 \/ 100 * SumSeq(w) * SumSeq(w) < (q + 1) * (q + 1) * Spread(w)

\* Math.round(95 + signalQuality * 4): 95 plus the number of half steps reached
roundedSpo2(w) ==
  95 + Cardinality({ k \in 1..4 : qualityAtLeast(w, 2 * k - 1, 8) })

\* data[i] > mean + 0.5 * stdDev (calculateThreshold)
aboveThreshold(w, v) ==
  LET d == Len(w) * v - SumSeq(w) IN d > 0 /\ 4 * d * d > Spread(w)

\* findPeaks: the (1-based) places of the local maxima above the threshold
findPeaks(w) ==
  LET idx == { i \in 2..(Len(w) - 1) :
                 aboveThreshold(w, w[i]) /\ w[i] > w[i - 1] /\ w[i] > w[i + 1] }
      RECURSIVE Sorted(_)
      Sorted(S) == IF S = {} THEN <<>>
                   ELSE LET m == CHOOSE x \in S : \A y \in S : x <= y
                        IN <<m>> \o Sorted(S \ {m})
  IN Sorted(idx)

\* calculateHeartRateVariability(peaks) >= 0.2
hrvAtLeastFifth(peaks) ==
  IF Len(peaks) < 2 THEN FALSE
  ELSE LET intervals == [i \in 1..(Len(peaks) - 1) |-> peaks[i + 1] - peaks[i]]
       IN 25 * Spread(intervals) >= SumSeq(intervals) * SumSeq(intervals)

\* calculateHeartRateVariability(peaks) > 0.2: the coefficient of variation of the
\* distances between successive peaks
hrvAboveFifth(peaks) ==
  IF Len(peaks) < 2 THEN FALSE
  ELSE LET intervals == [i \in 1..(Len(peaks) - 1) |-> peaks[i + 1] - peaks[i]]
       IN 25 * Spread(intervals) > SumSeq(intervals) * SumSeq(intervals)

\* lines 426-427 and 446: the two arrhythmia fields of the snapshot
classifyRhythm(peaks) ==
  [ kind |-> "rhythm",
    hasArrhythmia |-> hrvAboveFifth(peaks),
    arrhythmiaType |-> IF hrvAboveFifth(peaks) THEN "Irregular" ELSE "Normal" ]

\* processFrame of UltraAdvancedPPGProcessor, lines 395-450
ultraProcessFrame(in) ==
  LET w == in.window
      amplitude == MaxSeq(w) - MinSeq(w)
      hasArrhythmia == classifyRhythm(findPeaks(w)).hasArrhythmia
  IN Emitted(
       [ bpm |-> MathRound(in.detectorBpm),
         spo2 |-> IF qualityAbove(w, 3, 5) THEN roundedSpo2(w) ELSE 0,
         systolic  |-> IF qualityAbove(w, 7, 10) THEN 120 + amplitude * 10 ELSE 0,
         diastolic |-> IF qualityAbove(w, 7, 10) THEN 80 + amplitude * 5 ELSE 0,
         hasArrhythmia |-> hasArrhythmia,
         arrhythmiaType |-> classifyRhythm(findPeaks(w)).arrhythmiaType,
         signalQuality |-> calculateSignalQuality(w),
         confidence |-> calculateSignalQuality(w) ])

\* ---------------------------------------------------------------- the system

\* running     which of the three classes the page instantiated
\* clock       the last reading of Date.now()
\* frame       the frame handed to processFrame last; frames counts them
\* ppgSync, ppgAsync   the instances; syncOut, asyncOut, ultraOut: what their last
\*             processFrame call settled with
\* twin, twinClock, twinOut   a second ppgAsync instance with its own wall clock,
\*             fed the same frames (specification SpecTwin only)
\* held        a snapshot of ppgAsync its caller kept, as it was when processFrame
\*             returned it, and whether its readings are still the array of the
\*             instance (specification SpecCaller only)
\* toast       the notification handleFrame raised for the last frame
\* parked      a processFrame call of ppgAsync suspended on its beep while later
\*             calls run (specification SpecOverlap only)
\* hrvPeaks, hrvOut   an argument of calculateHeartRateVariability and the
\*             arrhythmia fields derived from it (specification SpecHrv only)
\* channels    what extractChannels of the SignalExtractor of ppgAsync and of twin
\*             returned for the last frame (specification SpecChannels only)
VARIABLES running, clock, frame, frames, ppgSync, syncOut, ppgAsync, asyncOut,
          ultraOut, twin, twinClock, twinOut, held, toast, parked, hrvPeaks, hrvOut,
          channels

vars == << running, clock, frame, frames, ppgSync, syncOut, ppgAsync, asyncOut,
           ultraOut, twin, twinClock, twinOut, held, toast, parked, hrvPeaks,
           hrvOut, channels >>

\* what only the callers of processFrame hold
callerVars == << held, toast, parked, hrvPeaks, hrvOut, channels >>

\* frames of ppgAsync in one behaviour of Spec (the first four accepted frames
\* never pass the quality gate), and frames of ppgSync
MaxFrames == 7
MaxSyncFrames == 4
\* Date.now() at construction, and the last reading a behaviour of Spec reaches
ClockStart == 1000
MaxClock == 3000
\* time between two frames
ClockSteps == { 250, 500 }

NoFrame == << >>

InitExceptPeaks ==
  /\ running \in { "sync", "async", "ultra" }
  /\ clock = ClockStart /\ frame = NoFrame /\ frames = 0
  /\ ppgSync = NewSync /\ syncOut = NoResult
  /\ ppgAsync = NewAsync /\ asyncOut = NoResult
  /\ ultraOut = NoResult
  /\ twin = NewAsync /\ twinClock = ClockStart /\ twinOut = NoResult
  /\ held = NoResult /\ toast = "none" /\ parked = NoResult
  /\ hrvOut = NoResult /\ channels = NoResult

Init == InitExceptPeaks /\ hrvPeaks = << >>

\* What the collaborators return for one frame of ppgAsync: a usual frame, and each
\* estimator in turn off its usual value.
UsualEstimates ==
  [ dominantFreq |-> 120, hrv |-> CHOOSE h \in HrvResults : ~h.hasArrhythmia,
    spo2Result |-> [spo2 |-> 98, confidence |-> 90], bp |-> <<130, 85>>,
    signalQuality |-> 60 ]

AsyncEstimates ==
  { [UsualEstimates EXCEPT !.dominantFreq = f] : f \in DominantFreqs }
  \cup { [UsualEstimates EXCEPT !.hrv = h] : h \in HrvResults }
  \cup { [UsualEstimates EXCEPT !.spo2Result = o] : o \in AnySpo2Results }
  \cup { [UsualEstimates EXCEPT !.bp = b] : b \in AnyPressures }
  \cup { [UsualEstimates EXCEPT !.signalQuality = q] : q \in SignalQualities }

AsyncInputs(frameSet, nows, values, shapes, estimates) ==
  { [ frame |-> f, now |-> n, normalizedValue |-> v, shape |-> sh,
      dominantFreq |-> e.dominantFreq, hrv |-> e.hrv, spo2Result |-> e.spo2Result,
      bp |-> e.bp, signalQuality |-> e.signalQuality ] :
    f \in frameSet, n \in nows, v \in values, sh \in shapes, e \in estimates }

\* What the collaborators return for one frame of ppgSync.
UsualSyncEstimates ==
  [ dominantFreq |-> 120, hrv |-> CHOOSE h \in HrvResults : ~h.hasArrhythmia,
    spo2 |-> 96, bp |-> <<120, 80>>, bpCalibrated |-> <<118, 76>>,
    signalQuality |-> 60 ]

SyncEstimates ==
  { [UsualSyncEstimates EXCEPT !.dominantFreq = f] : f \in DominantFreqs }
  \cup { [UsualSyncEstimates EXCEPT !.hrv = h] : h \in HrvResults }
  \cup { [UsualSyncEstimates EXCEPT !.spo2 = o] : o \in Spo2Estimates }
  \cup { [UsualSyncEstimates EXCEPT !.bp = b] : b \in PressureEstimates }
  \cup { [UsualSyncEstimates EXCEPT !.bpCalibrated = b] : b \in CalibratedPressureEstimates }
  \cup { [UsualSyncEstimates EXCEPT !.signalQuality = q] : q \in SignalQualities }

SyncInputs(frameSet, nows, values, estimates) ==
  { [ frame |-> f, now |-> n, filtered |-> v,
      dominantFreq |-> e.dominantFreq, hrv |-> e.hrv, spo2 |-> e.spo2,
      bp |-> e.bp, bpCalibrated |-> e.bpCalibrated,
      signalQuality |-> e.signalQuality ] :
    f \in frameSet, n \in nows, v \in values, e \in estimates }

UltraInputs == [ window : AnalysisWindows, detectorBpm : DetectorBpms ]

\* the clock readings a frame of Spec can see
Nows == { clock + d : d \in ClockSteps } \cap 0..MaxClock

\* A frame arrives at ppgAsync: processFrame runs to its first await or to its return.
AsyncFrame(inputs, maxFrames) ==
  /\ running = "async" /\ ppgAsync.pc = "idle" /\ frames < maxFrames
  /\ \E in \in inputs :
       \E r \in { asyncBegin(ppgAsync, in) } :
       /\ ppgAsync' = r.s /\ asyncOut' = r.out
       /\ clock' = in.now /\ frame' = in.frame
  /\ frames' = frames + 1
  /\ UNCHANGED << running, ppgSync, syncOut, ultraOut, twin, twinClock, twinOut, callerVars >>

\* BeepPlayer.playBeep settles, resolved or rejected.
AsyncBeepSettles ==
  /\ running = "async" /\ ppgAsync.pc = "beep"
  /\ \E beepOk \in BOOLEAN :
       \E r \in { asyncAfterBeep(ppgAsync, beepOk) } :
       ppgAsync' = r.s /\ asyncOut' = r.out
  /\ UNCHANGED << running, clock, frame, frames, ppgSync, syncOut, ultraOut,
                  twin, twinClock, twinOut, callerVars >>

\* trainMLModel settles: it can only reject when it called MLModel.trainModel.
TrainSettles(outcomes) ==
  /\ running = "async" /\ ppgAsync.pc = "train"
  /\ \E trainOk \in outcomes :
       /\ trainOk \/ Len(ppgAsync.trainingData) > minTrainingData
       /\ \E r \in { asyncAfterTrain(ppgAsync, trainOk) } :
          ppgAsync' = r.s /\ asyncOut' = r.out
  /\ UNCHANGED << running, clock, frame, frames, ppgSync, syncOut, ultraOut,
                  twin, twinClock, twinOut, callerVars >>

AsyncTrainSettles == TrainSettles(BOOLEAN)

\* MLModel.predictOptimizedSettings settles, with a prediction or rejected.
PredictSettles(outcomes) ==
  /\ running = "async" /\ ppgAsync.pc = "predict"
  /\ \E outcome \in outcomes :
       \E r \in { asyncAfterPredict(ppgAsync, outcome) } :
       ppgAsync' = r.s /\ asyncOut' = r.out
  /\ UNCHANGED << running, clock, frame, frames, ppgSync, syncOut, ultraOut,
                  twin, twinClock, twinOut, callerVars >>

\* A frame arrives at ppgSync: processFrame runs from call to return.
SyncFrame(inputs, maxFrames) ==
  /\ running = "sync" /\ frames < maxFrames
  /\ \E in \in inputs :
       \E r \in { syncProcessFrame(ppgSync, in) } :
       /\ ppgSync' = r.s /\ syncOut' = r.out
       /\ clock' = in.now /\ frame' = in.frame
  /\ frames' = frames + 1
  /\ UNCHANGED << running, ppgAsync, asyncOut, ultraOut, twin, twinClock, twinOut, callerVars >>

\* A frame arrives at ultra: processFrame runs to its return (updateFeedback, which
\* it awaits, only logs).
UltraProcessFrame ==
  /\ running = "ultra"
  /\ \E in \in UltraInputs : ultraOut' = ultraProcessFrame(in)
  /\ UNCHANGED << running, clock, frame, frames, ppgSync, syncOut, ppgAsync,
                  asyncOut, twin, twinClock, twinOut, callerVars >>

AsyncPredictSettles == PredictSettles(PredictOutcomes)

\* Spec: a few frames of any kind, every estimator off its usual value in turn.
AsyncProcessFrame ==
  AsyncFrame(AsyncInputs(Frames, Nows, NormalizedValues, BOOLEAN, AsyncEstimates),
             MaxFrames)

SyncProcessFrame ==
  SyncFrame(SyncInputs(SyncFrames, Nows, FilteredValues, SyncEstimates), MaxSyncFrames)

Next == AsyncProcessFrame \/ AsyncBeepSettles \/ SyncProcessFrame \/ UltraProcessFrame

Spec == Init /\ [][Next]_vars

\* SpecSession: one long measurement, a finger on the lens from the first frame on,
\* a frame every SessionStep ms, a pulse shape on every frame and the estimators at
\* their usual values; the side channels settle either way.
MaxSessionFrames == 335
SessionStep == 100

SessionAsyncFrame ==
  AsyncFrame(AsyncInputs({ FingerFrame }, { clock + SessionStep }, { 10 }, { TRUE },
                         { UsualEstimates }),
             MaxSessionFrames)

SessionSyncFrame ==
  SyncFrame(SyncInputs({ FingerFrame }, { clock + SessionStep }, { 1250 },
                       { UsualSyncEstimates }),
            MaxSessionFrames)

SessionNext ==
  \/ SessionAsyncFrame \/ AsyncBeepSettles \/ AsyncTrainSettles
  \/ AsyncPredictSettles \/ SessionSyncFrame

SpecSession == Init /\ [][SessionNext]_vars

\* SpecAdapter: the first frames of such a measurement, the prediction of every
\* thirtieth frame being any three numbers.
MaxAdapterFrames == 65

AdapterFrame ==
  AsyncFrame(AsyncInputs({ FingerFrame }, { clock + SessionStep }, { 10 }, { TRUE },
                         { UsualEstimates }),
             MaxAdapterFrames)

AdapterPredictSettles == PredictSettles(AnyPredictOutcomes)

AdapterNext ==
  \/ AdapterFrame \/ AsyncBeepSettles \/ AsyncTrainSettles \/ AdapterPredictSettles

SpecAdapter == Init /\ [][AdapterNext]_vars

\* SpecCaller: the page and what it does with processFrame. With ppgSync, the
\* page's handleFrame is handed each camera frame, and the user may supply a
\* calibration profile; with ppgAsync, the caller may keep a snapshot it was
\* returned while later frames are processed.
MaxCallerFrames == 6

CallerFrames == { FingerFrame, DarkFrame, SaturatedFrame }

ErrorToast == "Error en el procesamiento"

\* UserCalibration objects
Profiles == { "profile" }

\* handleFrame of HeartRateMonitor.tsx: processFrame of ppgSync, then the setters
\* read the fields of what it returned (vitals.bpm of null throws a TypeError),
\* and the catch block raises the toast.
HandleFrame ==
  /\ running = "sync" /\ frames < MaxCallerFrames
  /\ \E in \in SyncInputs(CallerFrames, Nows, { 1250 }, { UsualSyncEstimates }) :
       \E r \in { syncProcessFrame(ppgSync, in) } :
       /\ ppgSync' = r.s /\ syncOut' = r.out
       /\ toast' = IF r.out.kind = "null" THEN ErrorToast ELSE "none"
       /\ clock' = in.now /\ frame' = in.frame
  /\ frames' = frames + 1
  /\ UNCHANGED << running, ppgAsync, asyncOut, ultraOut, twin, twinClock, twinOut,
                  held, parked, hrvPeaks, hrvOut, channels >>

SetCalibrationData ==
  /\ running = "sync" /\ ppgSync.calibrationData = "null"
  /\ \E data \in Profiles : ppgSync' = setCalibrationData(ppgSync, data)
  /\ UNCHANGED << running, clock, frame, frames, syncOut, ppgAsync, asyncOut,
                  ultraOut, twin, twinClock, twinOut, callerVars >>

\* The object the caller keeps: `returned` is the snapshot as processFrame returned
\* it, `current` what the same object holds now; its readings field is the array
\* this.readings (line 430) for as long as `shared`.
Kept(snapshot, isShared) ==
  [ kind |-> "snapshot", returned |-> snapshot, current |-> snapshot,
    shared |-> isShared ]

\* line 430: the snapshot of a reading frame holds this.readings itself; the
\* no-finger snapshot holds an array of its own (line 340)
CallerKeepsSnapshot ==
  /\ running = "async" /\ ppgAsync.pc = "idle"
  /\ held.kind = "none" /\ asyncOut.kind = "snapshot"
  /\ held' = Kept(asyncOut.snap, ppgAsync.locals.known)
  /\ UNCHANGED << running, clock, frame, frames, ppgSync, syncOut, ppgAsync,
                  asyncOut, ultraOut, twin, twinClock, twinOut, toast, parked,
                  hrvPeaks, hrvOut, channels >>

\* what a kept snapshot holds after a later processFrame call took the instance
\* to `s`: unshift, push, pop and shift (lines 375-400) work on the shared array;
\* the no-finger branch gives the instance a new array (line 328)
heldAfter(h, s) ==
  IF h.kind = "snapshot" /\ h.shared
  THEN IF s.locals.known
       THEN [h EXCEPT !.current.readings = s.readings]
       ELSE [h EXCEPT !.shared = FALSE]
  ELSE h

CallerFrame ==
  /\ running = "async" /\ ppgAsync.pc = "idle" /\ frames < MaxCallerFrames
  /\ \E in \in AsyncInputs(CallerFrames, Nows, { 10 }, BOOLEAN, { UsualEstimates }) :
       \E r \in { asyncRun(ppgAsync, in) } :
       /\ ppgAsync' = r.s /\ asyncOut' = r.out
       /\ held' = heldAfter(held, r.s)
       /\ clock' = in.now /\ frame' = in.frame
  /\ frames' = frames + 1
  /\ UNCHANGED << running, ppgSync, syncOut, ultraOut, twin, twinClock, twinOut,
                  toast, parked, hrvPeaks, hrvOut, channels >>

CallerNext == HandleFrame \/ SetCalibrationData \/ CallerKeepsSnapshot \/ CallerFrame

SpecCaller == Init /\ [][CallerNext]_vars

\* SpecHrv: processFrame of ultra on its windows, and, apart from the windows,
\* calculateHeartRateVariability and the arrhythmia fields derived from it on
\* peak positions of any spacing.
\* Distances between successive peaks: equal, slightly and widely different.
PeakDistances == { 4, 6, 800, 820, 1400 }
MaxDistances == 3

\* the positions of peaks `distances` apart, the first at 0
RECURSIVE PeaksApart(_)
PeaksApart(distances) ==
  IF distances = << >> THEN << 0 >>
  ELSE LET before == PeaksApart(SubSeq(distances, 1, Len(distances) - 1))
       IN Append(before, before[Len(before)] + distances[Len(distances)])

PeakLists ==
  { << >> }
  \cup { PeaksApart(d) : d \in UNION { [1..n -> PeakDistances] : n \in 0..MaxDistances } }
  \cup { PeaksApart(<< 800, 820, 795, 1400, 810 >>) }

InitHrv ==
  /\ InitExceptPeaks
  /\ \/ running = "ultra" /\ hrvPeaks = << >>
     \/ running # "ultra" /\ hrvPeaks \in PeakLists

ClassifyRhythm ==
  /\ hrvOut = NoResult
  /\ hrvOut' = classifyRhythm(hrvPeaks)
  /\ UNCHANGED << running, clock, frame, frames, ppgSync, syncOut, ppgAsync,
                  asyncOut, ultraOut, twin, twinClock, twinOut, held, toast,
                  parked, hrvPeaks, channels >>

HrvNext == ClassifyRhythm \/ UltraProcessFrame

SpecHrv == InitHrv /\ [][HrvNext]_vars

\* SpecOverlap: the first frames of such a measurement when the page does not wait
\* for one processFrame call to settle before it makes the next: a call suspended
\* on its beep stays so while later calls run, and resumes when its beep settles.
\* The page may change the sensitivity settings between any two steps.
MaxOverlapFrames == 31

OverlapFrame ==
  AsyncFrame(AsyncInputs({ FingerFrame }, { clock + SessionStep }, { 10 }, { TRUE },
                         { UsualEstimates }),
             MaxOverlapFrames)

\* the settings the page's controls hand to updateSensitivitySettings
CallerSensitivity ==
  { [signalAmplification |-> 200, noiseReduction |-> 100, peakDetection |-> 130] }

\* called once in a behaviour
UpdateSensitivitySettings ==
  /\ running = "async" /\ ppgAsync.sensitivitySettings = InitialSensitivity
  /\ \E settings \in CallerSensitivity :
       ppgAsync' = updateSensitivitySettings(ppgAsync, settings)
  /\ UNCHANGED << running, clock, frame, frames, ppgSync, syncOut, asyncOut,
                  ultraOut, twin, twinClock, twinOut, callerVars >>

\* The call suspended at line 386 keeps its local variables; the instance is free
\* for the next call.
CallOverlaps ==
  /\ running = "async" /\ ppgAsync.pc = "beep" /\ parked = NoResult
  /\ parked' = [kind |-> "call", locals |-> ppgAsync.locals]
  /\ ppgAsync' = [ppgAsync EXCEPT !.pc = "idle"]
  /\ UNCHANGED << running, clock, frame, frames, ppgSync, syncOut, asyncOut,
                  ultraOut, twin, twinClock, twinOut, held, toast, hrvPeaks,
                  hrvOut, channels >>

\* The beep of the suspended call settles while no other call is running: the call
\* goes on from line 387 with its own local variables and the instance as the
\* later calls left it.
ParkedBeepSettles ==
  /\ running = "async" /\ ppgAsync.pc = "idle" /\ parked # NoResult
  /\ \E beepOk \in BOOLEAN :
       \E r \in { asyncAfterBeep([ppgAsync EXCEPT !.locals = parked.locals], beepOk) } :
       ppgAsync' = r.s /\ asyncOut' = r.out
  /\ parked' = NoResult
  /\ UNCHANGED << running, clock, frame, frames, ppgSync, syncOut, ultraOut,
                  twin, twinClock, twinOut, held, toast, hrvPeaks, hrvOut, channels >>

OverlapNext ==
  \/ OverlapFrame \/ AsyncBeepSettles \/ AsyncTrainSettles \/ AsyncPredictSettles
  \/ UpdateSensitivitySettings \/ CallOverlaps \/ ParkedBeepSettles

SpecOverlap == Init /\ [][OverlapNext]_vars

\* SpecTwin: two instances of the ppgAsync class, constructed alike, are handed the
\* same frames, and their collaborators return the same results; each reads its
\* own wall clock. Every call runs to its return (a session shorter than
\* trainingPeriod frames has no training).
MaxTwinFrames == 6

TwinFrame ==
  /\ running = "async" /\ frames < MaxTwinFrames
  /\ ppgAsync.pc = "idle" /\ twin.pc = "idle"
  /\ \E in \in AsyncInputs(SyncFrames, { clock + d : d \in ClockSteps }, { 10 },
                            BOOLEAN, { UsualEstimates }),
        twinNow \in { twinClock + d : d \in ClockSteps } :
       \E r \in { asyncRun(ppgAsync, in) },
          rt \in { asyncRun(twin, [in EXCEPT !.now = twinNow]) } :
       /\ ppgAsync' = r.s /\ asyncOut' = r.out
       /\ twin' = rt.s /\ twinOut' = rt.out
       /\ clock' = in.now /\ twinClock' = twinNow /\ frame' = in.frame
  /\ frames' = frames + 1
  /\ UNCHANGED << running, ppgSync, syncOut, ultraOut, callerVars >>

SpecTwin == Init /\ [][TwinFrame]_vars

\* ------------------------------------------- a session that fills the histories
\* One finger frame every SessionStep ms until saveTrainingData has run more
\* than maxTrainingData times. What the estimators and the model return is
\* different at every save, so that each entry of the histories tells the save
\* it is of: save number k is the one of frame k * trainingPeriod.

MaxTrainingFrames == 3035

\* calculateSpO2 and analyzeSignalQuality during the frames before save k
TrainingEstimates(k) ==
  [ UsualEstimates EXCEPT !.spo2Result = [spo2 |-> minSpo2 + (k % 26), confidence |-> 90],
                          !.signalQuality = 21 + (k \div 26) ]

\* predictOptimizedSettings after save k: thresholds inside the safe bounds
TrainingPrediction(k) ==
  [ ok |-> TRUE, values |-> << 10 + (k % 21), 30 + (k % 41), 10 + (k % 41) >> ]

TrainingFrame ==
  AsyncFrame(AsyncInputs({ FingerFrame }, { clock + SessionStep }, { 10 }, { FALSE },
                         { TrainingEstimates((frames + trainingPeriod) \div trainingPeriod) }),
             MaxTrainingFrames)

TrainingTrainSettles == TrainSettles({ TRUE })

TrainingPredictSettles ==
  PredictSettles({ TrainingPrediction(frames \div trainingPeriod) })

TrainingNext == TrainingFrame \/ TrainingTrainSettles \/ TrainingPredictSettles

SpecTraining == Init /\ [][TrainingNext]_vars

\* ------------------------------------------------- a pulse in front of ppgSync
\* Good-quality frames whose filtered red rises and falls: low, middle and high
\* values of lowPassFilter in any order, one frame every PulseStep ms.

MaxPulseFrames == 6
\* longer than minPeakDistance
PulseStep == 600
\* last value of lowPassFilter(redBuffer, 5), in tenths
PulseValues == { 600, 1250, 2550 }

PulseFrame ==
  SyncFrame(SyncInputs({ FingerFrame }, { clock + PulseStep }, PulseValues,
                       { UsualSyncEstimates }), MaxPulseFrames)

SpecPulse == Init /\ [][PulseFrame]_vars

\* every waveform of up to MaxPulseFrames frames PulseFrame can deliver
PulseWaveforms ==
  UNION { [1..n -> PulseValues] : n \in 1..MaxPulseFrames }

\* ppgSync after the frames of a waveform, the first of them at now + PulseStep
RECURSIVE pulseRun(_, _, _)
pulseRun(s, now, waveform) ==
  IF waveform = << >> THEN s
  ELSE pulseRun(
         syncProcessFrame(s, CHOOSE in \in SyncInputs({ FingerFrame }, { now + PulseStep },
                                         { Head(waveform) }, { UsualSyncEstimates }) : TRUE).s,
         now + PulseStep, Tail(waveform))

\* ---------------------------------------------- two runs differing in green / blue
\* ppgAsync and twin are handed frames with the same red content and a green /
\* blue content chosen for each on its own; every such frame passes the pixel
\* gate (line 81) and the dominance gate (line 90). channels records what
\* extractChannels (called at line 323) returned to each.

MaxChannelFrames == 4

ChannelReds == { 130, 140 }
ChannelGreenBlues == { 60, 90 }

ChannelsFrame ==
  /\ running = "async" /\ frames < MaxChannelFrames
  /\ ppgAsync.pc = "idle" /\ twin.pc = "idle"
  /\ \E r \in ChannelReds, gb \in ChannelGreenBlues, twinGb \in ChannelGreenBlues :
       \E in \in AsyncInputs({ << Group(RoiPixels, r, gb, gb) >> }, { clock + SessionStep },
                               { 10 }, { FALSE }, { UsualEstimates }) :
       \E tin \in { [in EXCEPT !.frame = << Group(RoiPixels, r, twinGb, twinGb) >>] } :
       \E res \in { asyncRun(ppgAsync, in) }, rt \in { asyncRun(twin, tin) } :
         /\ ~extractorRejects(in.frame) /\ ~extractorRejects(tin.frame)
         /\ ppgAsync' = res.s /\ asyncOut' = res.out
         /\ twin' = rt.s /\ twinOut' = rt.out
         /\ channels' = [ kind |-> "channels",
                          own  |-> extractChannels(ppgAsync.signalExtractor, in.frame).out,
                          twin |-> extractChannels(twin.signalExtractor, tin.frame).out ]
         /\ clock' = in.now /\ twinClock' = in.now /\ frame' = in.frame
  /\ frames' = frames + 1
  /\ UNCHANGED << running, ppgSync, syncOut, ultraOut,
                  held, toast, parked, hrvPeaks, hrvOut >>

SpecChannels == Init /\ [][ChannelsFrame]_vars

\* ------------------------------------------------------------------ properties

\* the snapshots the three pipelines emitted last
Snapshots ==
  { o.snap : o \in { x \in { syncOut, asyncOut, ultraOut } : x.kind = "snapshot" } }

\* ppgAsync returned the snapshot of a frame that got past the finger gate
AsyncReadingDone ==
  asyncOut.kind = "snapshot" /\ ppgAsync.pc = "idle" /\ ppgAsync.locals.known

\* C1: in every snapshot a processFrame emitted, systolic and diastolic are both 0
\* or systolic is above diastolic, whatever the pressure estimator of ppgAsync
\* returned (ppgSync emits the pair of SignalProcessor unchanged).
C1_SystolicAboveDiastolic ==
  \A snap \in Snapshots :
    \/ snap.systolic = 0 /\ snap.diastolic = 0
    \/ Gt(snap.systolic, snap.diastolic)

\* C1 witness: the estimator returned an inverted pair (systolic 100, diastolic
\* 110, both in range) after an earlier frame had changed the last valid pair, and
\* the snapshot was emitted with the last valid pair.
C1_Witness ==
  /\ AsyncReadingDone
  /\ ppgAsync.locals.in.bp = <<100, 110>>
  /\ ppgAsync.lastValidDiastolic = 110
  /\ asyncOut.snap.systolic = ppgAsync.lastValidSystolic
  /\ asyncOut.snap.diastolic = ppgAsync.lastValidDiastolic

\* C2: every snapshot a processFrame emitted has bpm = 0 or 40 <= bpm <= 200,
\* whatever the dominant frequency was (bpm in hundredths of a beat per minute).
\* ppgSync emits Math.round(dominantFreq * 60) as it is.
C2_BpmZeroOrInRange ==
  \A snap \in Snapshots :
    \/ snap.bpm = 0
    \/ Ge(snap.bpm, minBpm * 100) /\ Le(snap.bpm, maxBpm * 100)

AsyncBuffersEmpty(s) ==
  /\ s.redBuffer = << >> /\ s.irBuffer = << >> /\ s.signalBuffer = << >>
  /\ s.readings = << >> /\ s.peakTimes = << >>

\* C5: whenever the snapshot ppgAsync emitted has signalQuality = 0, its other
\* fields have their zero values and the five buffers of the pipeline are empty.
C5_ZeroQualityMeansAllZero ==
  (asyncOut.kind = "snapshot" /\ asyncOut.snap.signalQuality = 0) =>
    /\ asyncOut.snap.bpm = 0 /\ asyncOut.snap.spo2 = 0
    /\ asyncOut.snap.systolic = 0 /\ asyncOut.snap.diastolic = 0
    /\ asyncOut.snap.confidence = 0
    /\ ~asyncOut.snap.hasArrhythmia /\ ~asyncOut.snap.isPeak
    /\ asyncOut.snap.readings = << >>
    /\ AsyncBuffersEmpty(ppgAsync)

\* C8: when the extractor returned red = 0, ir = 0, quality = 0 for the last
\* frame, the processFrame call emitted the all-zero snapshot and left redBuffer,
\* irBuffer, readings and peakTimes empty.
C8_RejectedFrameResets ==
  /\ (running = "async" /\ frames > 0 /\ ppgAsync.pc = "idle"
        /\ extractorRejects(frame)) =>
       /\ asyncOut = Emitted(NoFingerSnapshot)
       /\ ppgAsync.redBuffer = << >> /\ ppgAsync.irBuffer = << >>
       /\ ppgAsync.readings = << >> /\ ppgAsync.peakTimes = << >>
  /\ (running = "sync" /\ frames > 0
        /\ syncExtractChannels(frame) = ExtractorRejected) =>
       /\ syncOut.kind = "snapshot"
       /\ syncOut.snap.bpm = 0 /\ syncOut.snap.spo2 = 0
       /\ syncOut.snap.systolic = 0 /\ syncOut.snap.diastolic = 0
       /\ ~syncOut.snap.hasArrhythmia /\ syncOut.snap.arrhythmiaType = "Normal"
       /\ syncOut.snap.signalQuality = 0
       /\ ppgSync.redBuffer = << >> /\ ppgSync.irBuffer = << >>
       /\ ppgSync.readings = << >> /\ ppgSync.peakTimes = << >>

\* C4: after every processFrame call each bounded buffer is within its capacity:
\* redBuffer and irBuffer hold at most windowSize values, signalBuffer at most
\* bufferSize, readings at most windowSize and peakTimes at most maxPeakTimes.
C4_BuffersWithinCapacity ==
  \A s \in { ppgAsync, ppgSync } :
    /\ Len(s.redBuffer) <= windowSize /\ Len(s.irBuffer) <= windowSize
    /\ Len(s.signalBuffer) <= bufferSize
    /\ Len(s.readings) <= windowSize
    /\ Len(s.peakTimes) <= maxPeakTimes

\* C4 witness: ppgAsync has taken more reading frames than windowSize and more
\* peaks than maxPeakTimes, and every buffer is exactly full.
C4_Witness ==
  /\ ppgAsync.pc = "idle"
  /\ ppgAsync.frameCount > windowSize + smoothingWindow
  /\ Len(ppgAsync.redBuffer) = windowSize /\ Len(ppgAsync.irBuffer) = windowSize
  /\ Len(ppgAsync.signalBuffer) = bufferSize
  /\ Len(ppgAsync.readings) = windowSize
  /\ Len(ppgAsync.peakTimes) = maxPeakTimes

\* C9: a processFrame call of ppgAsync that has settled returned a snapshot: it
\* never rejects, whichever of the beep, the training and the prediction failed.
C9_SideChannelFailureNeverPropagates ==
  (running = "async" /\ frames > 0 /\ ppgAsync.pc = "idle") =>
    asyncOut.kind = "snapshot"

\* C10: a processFrame call of ppgAsync is never suspended, its snapshot not yet
\* returned, on the beep, the training or the prediction.
C10_NeverWaitsForSideChannel ==
  ppgAsync.pc \notin { "beep", "train", "predict" }

\* C7: the two instances, handed the same frames from the same starting state,
\* have emitted the same snapshot after every frame.
C7_SameFramesSameSnapshots ==
  twinOut = asyncOut

OtherProcessingFields ==
  DOMAIN InitialProcessing
    \ { "MIN_RED_VALUE", "PEAK_THRESHOLD_FACTOR", "MIN_VALID_PIXELS_RATIO" }

\* C11: whatever the prediction model returned, MIN_RED_VALUE is within [10, 30],
\* PEAK_THRESHOLD_FACTOR within [0.3, 0.7], MIN_VALID_PIXELS_RATIO within
\* [0.1, 0.5], and every other field of processingSettings has the value it was
\* constructed with.
C11_ThresholdsWithinSafeBounds ==
  LET p == ppgAsync.processingSettings IN
  /\ p.MIN_RED_VALUE >= 10 /\ p.MIN_RED_VALUE <= 30
  /\ p.PEAK_THRESHOLD_FACTOR >= 30 /\ p.PEAK_THRESHOLD_FACTOR <= 70
  /\ p.MIN_VALID_PIXELS_RATIO >= 10 /\ p.MIN_VALID_PIXELS_RATIO <= 50
  /\ \A f \in OtherProcessingFields : p[f] = InitialProcessing[f]

\* C11 witness: the model returned 30, 0.8, 0.09 (the first on its upper bound,
\* the others outside theirs); MIN_RED_VALUE took 30 and the other two kept the
\* values they were constructed with.
C11_Witness ==
  /\ ppgAsync.pc = "idle" /\ ppgAsync.locals.known
  /\ ppgAsync.locals.optimizedSettings = [ok |-> TRUE, values |-> <<30, 80, 9>>]
  /\ ppgAsync.processingSettings.MIN_RED_VALUE = 30
  /\ ppgAsync.processingSettings.PEAK_THRESHOLD_FACTOR = 40
  /\ ppgAsync.processingSettings.MIN_VALID_PIXELS_RATIO = 20
\* the prediction has a component that is NaN, +Infinity or -Infinity
NonFinitePrediction(outcome) ==
  /\ outcome.ok
  /\ \E i \in 1..3 : outcome.values[i] \in { NaN, Infinity, 0 - Infinity }

\* C18: when the prediction that settled has a non-finite component,
\* updateSettingsWithML leaves MIN_RED_VALUE, PEAK_THRESHOLD_FACTOR and
\* MIN_VALID_PIXELS_RATIO (and every other field of processingSettings) as they
\* were.
C18_NonFinitePredictionDiscarded ==
  [][ ( /\ ppgAsync.pc = "predict" /\ ppgAsync'.pc = "idle"
        /\ NonFinitePrediction(ppgAsync'.locals.optimizedSettings) )
      => ppgAsync'.processingSettings = ppgAsync.processingSettings ]_vars
\* calculatedBpm of the frame whose call returned last (line 406)
calculatedBpm == Times(ppgAsync.locals.in.dominantFreq, 60)

\* C20: on a reading frame whose estimated bpm is outside [40, 200] or not a
\* number, the snapshot's bpm is the estimate of the most recent earlier frame
\* whose estimate was within [40, 200], or 0 when there has been none.
C20_OutOfRangeBpmFallsBackToLastInRange ==
  ( /\ AsyncReadingDone
    /\ ~(Ge(calculatedBpm, minBpm * 100) /\ Le(calculatedBpm, maxBpm * 100)) )
  => asyncOut.snap.bpm = ppgAsync.lastBpmInRange
\* C19: after a frame ppgAsync rejected as no-finger, signalBuffer, the last
\* valid bpm, systolic and diastolic, the extractor's histories and filter
\* state, and the training history have the values of a fresh instance.
C19_NoFingerRestoresColdState ==
  ( /\ running = "async" /\ ppgAsync.pc = "idle"
    /\ asyncOut = Emitted(NoFingerSnapshot) /\ ~ppgAsync.locals.known )
  => /\ ppgAsync.signalBuffer = NewAsync.signalBuffer
     /\ ppgAsync.lastValidBpm = NewAsync.lastValidBpm
     /\ ppgAsync.lastValidSystolic = NewAsync.lastValidSystolic
     /\ ppgAsync.lastValidDiastolic = NewAsync.lastValidDiastolic
     /\ ppgAsync.signalExtractor = NewExtractor
     /\ ppgAsync.trainingData = NewAsync.trainingData
     /\ ppgAsync.targetData = NewAsync.targetData
\* C12: a snapshot processFrame returned holds, whatever frames are processed
\* afterwards, what it held when it was returned, its readings included.
C12_ReturnedSnapshotNeverChanges ==
  held.kind = "snapshot" => held.current = held.returned

\* C16: for a frame ppgSync rejects (too few usable pixels), handleFrame raises no
\* error notification.
C16_RejectedFrameIsNoFault ==
  ( /\ running = "sync" /\ frames > 0
    /\ syncExtractChannels(frame).quality < syncQualityThreshold )
  => toast # ErrorToast

\* the pixels of the region with red above 250
RECURSIVE OverexposedCount(_)
OverexposedCount(f) ==
  IF f = << >> THEN 0
  ELSE (IF Head(f).r > 250 THEN Head(f).n ELSE 0) + OverexposedCount(Tail(f))

\* C13: for a frame with nine pixels in ten of its region above red 250, the
\* extractor rejects the frame and the snapshot is the all-zero no-finger
\* reading, whatever frames came before.
C13_SaturatedFrameIsNoFinger ==
  ( frames > 0 /\ 10 * OverexposedCount(frame) = 9 * PixelCount(frame) ) =>
    /\ (running = "async" /\ ppgAsync.pc = "idle") =>
         /\ extractorRejects(frame)
         /\ asyncOut = Emitted(NoFingerSnapshot)
    /\ running = "sync" =>
         /\ syncOut.kind = "snapshot"
         /\ syncOut.snap.bpm = 0 /\ syncOut.snap.spo2 = 0
         /\ syncOut.snap.systolic = 0 /\ syncOut.snap.diastolic = 0
         /\ syncOut.snap.signalQuality = 0

\* C15: the pressure pair of every reading frame of ppgSync is the one the
\* estimator with calibration returned when a profile had been supplied before
\* the frame, and the one the default estimator returned when none had.
C15_CalibrationSelectsEstimator ==
  [][ (running = "sync" /\ frames' = frames + 1 /\ syncOut'.kind = "snapshot") =>
        IF ppgSync.calibrationData \in Profiles
        THEN << syncOut'.snap.systolic, syncOut'.snap.diastolic >>
               \in CalibratedPressureEstimates
        ELSE << syncOut'.snap.systolic, syncOut'.snap.diastolic >>
               \in PressureEstimates ]_vars

\* C15 witness: a reading frame before the profile was supplied and one after
\* it; the last snapshot carries the pair of the estimator with calibration.
C15_Witness ==
  /\ running = "sync" /\ ppgSync.calibrationData \in Profiles
  /\ Len(ppgSync.readings) >= 2
  /\ syncOut.kind = "snapshot"
  /\ << syncOut.snap.systolic, syncOut.snap.diastolic >>
       \in CalibratedPressureEstimates
\* the distances between successive peaks
InterPeakIntervals(peaks) ==
  [i \in 1..(Len(peaks) - 1) |-> peaks[i + 1] - peaks[i]]

\* standard deviation / mean of x exceeds 0.2: with n values of sum S and mean
\* S / n, the variance is sum((n * x[i] - S)^2) / n^3, so the quotient exceeds
\* 1/5 iff 25 * sum((n * x[i] - S)^2) > n * S^2 (the mean being positive)
RECURSIVE SumSquaredDeviations(_, _, _)
SumSquaredDeviations(x, n, S) ==
  IF x = << >> THEN 0
  ELSE (n * Head(x) - S) * (n * Head(x) - S) + SumSquaredDeviations(Tail(x), n, S)

CoefficientOfVariationAboveFifth(x) ==
  /\ Len(x) > 0
  /\ 25 * SumSquaredDeviations(x, Len(x), SumSeq(x)) > Len(x) * SumSeq(x) * SumSeq(x)

\* C14: hasArrhythmia is true exactly when standard deviation / mean of the
\* distances between successive peaks exceeds 0.2 (false with fewer than two
\* peaks), and arrhythmiaType is 'Irregular' when hasArrhythmia is true and
\* 'Normal' when it is false, in the classification and in every snapshot.
C14_ArrhythmiaIffVariationAboveFifth ==
  /\ hrvOut # NoResult =>
       /\ hrvOut.hasArrhythmia
            <=> ( /\ Len(hrvPeaks) >= 2
                  /\ CoefficientOfVariationAboveFifth(InterPeakIntervals(hrvPeaks)) )
       /\ hrvOut.arrhythmiaType
            = IF hrvOut.hasArrhythmia THEN "Irregular" ELSE "Normal"
  /\ \A snap \in Snapshots :
       snap.arrhythmiaType = IF snap.hasArrhythmia THEN "Irregular" ELSE "Normal"

\* C14 witness: the distances 800, 820, 795, 1400, 810 were classified, as
\* arrhythmia and 'Irregular'.
C14_Witness ==
  /\ InterPeakIntervals(hrvPeaks) = << 800, 820, 795, 1400, 810 >>
  /\ hrvOut # NoResult
  /\ hrvOut.hasArrhythmia /\ hrvOut.arrhythmiaType = "Irregular"
Clamped(x, lo, hi) == Min(hi, Max(lo, x))

\* C21: on a reading frame of ppgAsync the snapshot carries the estimator's
\* systolic clamped to [90, 180] and its diastolic clamped to [60, 120], unless
\* the clamped systolic is not above the clamped diastolic; and every snapshot
\* with a non-zero pressure has systolic in [90, 180] and diastolic in [60, 120].
C21_PressureClampedToBands ==
  /\ ( /\ AsyncReadingDone
       /\ ~IsNaN(ppgAsync.locals.in.bp[1]) /\ ~IsNaN(ppgAsync.locals.in.bp[2]) )
     => LET systolic  == Clamped(ppgAsync.locals.in.bp[1], minSystolic, maxSystolic)
            diastolic == Clamped(ppgAsync.locals.in.bp[2], minDiastolic, maxDiastolic)
        IN systolic > diastolic =>
             /\ asyncOut.snap.systolic = systolic
             /\ asyncOut.snap.diastolic = diastolic
  /\ \A snap \in Snapshots :
       (snap.systolic # 0 \/ snap.diastolic # 0) =>
         /\ Ge(snap.systolic, minSystolic) /\ Le(snap.systolic, maxSystolic)
         /\ Ge(snap.diastolic, minDiastolic) /\ Le(snap.diastolic, maxDiastolic)

\* C23: on a reading frame for which the oxygenation estimator produced no
\* reading (0), the snapshot's spo2 is 0; ultra emits 0 when its signal quality
\* is below its threshold of 0.6.
C23_NoOxygenReadingIsZero ==
  /\ (AsyncReadingDone /\ ppgAsync.locals.in.spo2Result.spo2 = 0)
       => asyncOut.snap.spo2 = 0
  /\ (ultraOut.kind = "snapshot" /\ ultraOut.snap.signalQuality < 60)
       => ultraOut.snap.spo2 = 0

\* C26: the readings of a pipeline are in the order of their timestamps, the
\* oldest first, the clock never going back.
C26_ReadingsOldestFirst ==
  \A s \in { ppgAsync, ppgSync } :
    \A i \in 1..(Len(s.readings) - 1) :
      s.readings[i].timestamp <= s.readings[i + 1].timestamp

\* C27: two runs of extractChannels over frames of identical red content, all
\* passing the pixel and dominance gates, return the same smoothed red value on
\* every frame, whatever the green and blue content of either run.
C27_RedIgnoresGreenBlue ==
  channels.kind = "channels" => channels.own.red = channels.twin.red

\* at least minPeakDistance ms since the last accepted peak
FarFromLastPeak(lastPeakTime, now) == now - lastPeakTime >= minPeakDistance

\* the newest value of the buffer is greater than its two immediate predecessors
AboveBothPredecessors(buf) ==
  LET n == Len(buf) IN
  n >= 3 /\ buf[n] > buf[n - 1] /\ buf[n] > buf[n - 2]

\* the newest value exceeds 0.6 x the mean of the last five values and
\* 0.7 x adaptiveThreshold
AboveDynamicThreshold(buf, adaptiveThreshold) ==
  LET n == Len(buf)
      k == Min(n, 5)
      sum == SumSeq(SubSeq(buf, n - k + 1, n))
  IN 5 * k * buf[n] > 3 * sum /\ 10 * buf[n] > 7 * adaptiveThreshold

\* over the last four samples the first difference is positive and then
\* negative, and the newest value is more than 0.3 x adaptiveThreshold above the
\* least of them
ShapedLikeAPeak(buf, adaptiveThreshold) ==
  LET n == Len(buf) IN
  /\ n >= 4
  /\ buf[n - 1] - buf[n - 2] > 0
  /\ buf[n] - buf[n - 1] < 0
  /\ \E j \in (n - 3)..n : 10 * Abs(buf[n] - buf[j]) > 3 * adaptiveThreshold
                           /\ \A m \in (n - 3)..n : buf[j] <= buf[m]

\* C24: a frame of ppgSync changes adaptiveThreshold, lastPeakTime or peakTimes
\* only if isRealPeak accepted its value, and it accepts only if all four hold:
\* minPeakDistance ms since the last accepted peak, the value above its two
\* predecessors in signalBuffer, the value above max(0.6 x mean of the last
\* five, 0.7 x adaptiveThreshold), and the shape check over the last four.
C24_PeakOnlyIfAllFourConditions ==
  [][ ( \/ ppgSync'.adaptiveThreshold # ppgSync.adaptiveThreshold
        \/ ppgSync'.lastPeakTime # ppgSync.lastPeakTime
        \/ ppgSync'.peakTimes # ppgSync.peakTimes )
      => /\ frames' = frames + 1
         /\ ppgSync'.lastPeakTime = clock'
         /\ ppgSync'.peakTimes # << >>
         /\ ppgSync'.peakTimes[Len(ppgSync'.peakTimes)] = clock'
         /\ FarFromLastPeak(ppgSync.lastPeakTime, clock')
         /\ AboveBothPredecessors(ppgSync'.signalBuffer)
         /\ AboveDynamicThreshold(ppgSync'.signalBuffer, ppgSync.adaptiveThreshold)
         /\ ShapedLikeAPeak(ppgSync'.signalBuffer, ppgSync.adaptiveThreshold) ]_vars

\* C24 witness: a frame whose value met the distance, predecessor and threshold
\* conditions and failed the shape check only, and no peak was recorded.
C24_Witness ==
  /\ syncOut.kind = "snapshot"
  /\ FarFromLastPeak(ppgSync.lastPeakTime, clock)
  /\ AboveBothPredecessors(ppgSync.signalBuffer)
  /\ AboveDynamicThreshold(ppgSync.signalBuffer, ppgSync.adaptiveThreshold)
  /\ ~ShapedLikeAPeak(ppgSync.signalBuffer, ppgSync.adaptiveThreshold)
  /\ ppgSync.peakTimes = << >> /\ ppgSync.lastPeakTime = 0

\* C25: from the new PPGProcessor of ppgProcessor.ts there is a sequence of
\* good-quality frames, a waveform that rises and falls, after which isRealPeak
\* has returned true: peakTimes is not empty and lastPeakTime has been updated.
C25_PeakAcceptanceReachable ==
  (running = "sync" /\ frames = 0) =>
    \E waveform \in PulseWaveforms :
      LET s == pulseRun(ppgSync, clock, waveform) IN
      s.peakTimes # << >> /\ s.lastPeakTime # 0

\* the save a trainingData entry of SpecTraining is of
SaveOf(sample) == (sample[2] - minSpo2) + 26 * (sample[3] - 21)

\* the thresholds in force at save k of SpecTraining: those of the constructor,
\* then those predicted after the save before
ThresholdsAtSave(k) ==
  IF k = 1
  THEN << InitialProcessing.MIN_RED_VALUE, InitialProcessing.PEAK_THRESHOLD_FACTOR,
          InitialProcessing.MIN_VALID_PIXELS_RATIO >>
  ELSE TrainingPrediction(k - 1).values

\* the histories with a pair added: the oldest pair leaves when there are
\* already maxTrainingData of them
PairAdded(history, entry) ==
  IF Len(history) < maxTrainingData THEN Append(history, entry)
  ELSE Append(Tail(history), entry)

\* C22: trainingData and targetData have the same length, at most 100; entry i
\* of both is of the same save, the saves being in their order; and a step that
\* changes either appends this frame's pair to both, the oldest pair leaving
\* both when they were at capacity.
C22_TrainingHistoriesPairedFifo ==
  [][ LET td == ppgAsync'.trainingData
          tg == ppgAsync'.targetData
      IN
      /\ Len(td) = Len(tg)
      /\ Len(td) <= maxTrainingData
      /\ \A i \in 1..Len(td) : tg[i] = ThresholdsAtSave(SaveOf(td[i]))
      /\ \A i \in 1..(Len(td) - 1) : SaveOf(td[i + 1]) = SaveOf(td[i]) + 1
      /\ (td # ppgAsync.trainingData \/ tg # ppgAsync.targetData) =>
           /\ td = PairAdded(ppgAsync.trainingData,
                             << ppgAsync'.locals.vitals.bpm,
                                ppgAsync'.locals.in.spo2Result.spo2,
                                ppgAsync'.locals.in.signalQuality >>)
           /\ tg = PairAdded(ppgAsync.targetData,
                             << ppgAsync.processingSettings.MIN_RED_VALUE,
                                ppgAsync.processingSettings.PEAK_THRESHOLD_FACTOR,
                                ppgAsync.processingSettings.MIN_VALID_PIXELS_RATIO >>)
           /\ ppgAsync'.frameCount = SaveOf(td[Len(td)]) * trainingPeriod ]_vars

\* C22 witness: the pair of save 101 was added at capacity, and the histories
\* hold the pairs of saves 2 to 101.
C22_Witness ==
  /\ Len(ppgAsync.trainingData) = maxTrainingData
  /\ Len(ppgAsync.targetData) = maxTrainingData
  /\ SaveOf(ppgAsync.trainingData[1]) = 2
  /\ SaveOf(ppgAsync.trainingData[maxTrainingData]) = maxTrainingData + 1
  /\ ppgAsync.targetData[1] = ThresholdsAtSave(2)
  /\ ppgAsync.targetData[maxTrainingData] = ThresholdsAtSave(maxTrainingData + 1)
====
